---- MODULE Spec2Model ----
(***************************************************************************)
(* Model of client/buck.py: the link-tree scanner, the `buck targets`     *)
(* normalizer with its JSON cache, the builder and the orchestrator       *)
(* generate_source_directories.                                           *)
(*                                                                         *)
(* A Python str is a sequence of tokens.  The punctuation the code looks   *)
(* at ("/", ":", ".", " ", "\n", ",", "#", "*") is one token per           *)
(* character; a run of ordinary letters ("x", "out", "link-tree") is one   *)
(* token.  A Python list is a sequence; an insertion-ordered dict is a     *)
(* sequence of [k, v] records with distinct keys; Optional[str] is <<>>    *)
(* for None and <<s>> for the string s.                                    *)
(***************************************************************************)
EXTENDS Integers, Sequences, FiniteSets, TLC

\* ------------------------------------------------------------------ bounds
MaxOriginals == 2   \* longest original_targets list
MaxLines == 2       \* most lines the query prints
MaxCalls == 2       \* standalone _normalize calls in one behaviour
MaxPasses == 3      \* passes of generate_source_directories the model follows

\* ------------------------------------------------------- str and list ops
StartsWith(s, p) == Len(p) <= Len(s) /\ SubSeq(s, 1, Len(p)) = p

EndsWith(s, p) == Len(p) <= Len(s) /\ SubSeq(s, Len(s) - Len(p) + 1, Len(s)) = p

RECURSIVE LStrip(_, _)
LStrip(s, chars) ==
    IF s # <<>> /\ Head(s) \in chars THEN LStrip(Tail(s), chars) ELSE s

RECURSIVE RStrip(_, _)
RStrip(s, chars) ==
    IF s # <<>> /\ s[Len(s)] \in chars
    THEN RStrip(SubSeq(s, 1, Len(s) - 1), chars)
    ELSE s

Whitespace == {" ", "\n"}

Strip(s) == RStrip(LStrip(s, Whitespace), Whitespace)

RECURSIVE Replace(_, _, _)
Replace(s, old, new) ==
    IF s = <<>> THEN <<>>
    ELSE IF StartsWith(s, old)
         THEN new \o Replace(SubSeq(s, Len(old) + 1, Len(s)), old, new)
         ELSE <<Head(s)>> \o Replace(Tail(s), old, new)

RECURSIVE Split(_, _)
Split(s, sep) ==
    IF s = <<>> THEN << <<>> >>
    ELSE IF Head(s) = sep
         THEN << <<>> >> \o Split(Tail(s), sep)
         ELSE CHOOSE pieces \in { << <<Head(s)>> \o Head(rest) >> \o Tail(rest) :
                                     rest \in {Split(Tail(s), sep)} } : TRUE

RECURSIVE Join(_, _)
Join(parts, sep) ==
    IF parts = <<>> THEN <<>>
    ELSE IF Len(parts) = 1 THEN parts[1]
    ELSE parts[1] \o sep \o Join(Tail(parts), sep)

RECURSIVE Flatten(_)
Flatten(lists) ==
    IF lists = <<>> THEN <<>> ELSE Head(lists) \o Flatten(Tail(lists))

Range(s) == {s[i] : i \in DOMAIN s}

\* insertion-ordered dict
Keys(d) == [i \in DOMAIN d |-> d[i].k]

HasKey(d, key) == \E i \in DOMAIN d : d[i].k = key

Get(d, key) == d[CHOOSE i \in DOMAIN d : d[i].k = key].v

Put(d, key, val) ==
    IF HasKey(d, key)
    THEN [i \in DOMAIN d |-> IF d[i].k = key THEN [k |-> key, v |-> val] ELSE d[i]]
    ELSE Append(d, [k |-> key, v |-> val])

RECURSIVE FromKeys(_, _)
FromKeys(keys, val) ==
    IF keys = <<>> THEN <<>>
    ELSE Put(FromKeys(SubSeq(keys, 1, Len(keys) - 1), val), keys[Len(keys)], val)

None == <<>>

Some(s) == <<s>>

\* --------------------------------------------------------------- constants
CACHE_PATH == <<".pyre", "/", "buckcache.json">>

GenRoot == <<"buck-out", "/", "gen", "/">>

LinkTreeGlobSuffix == <<"#", "*", "link-tree">>

ReservedSuffixes ==
    { <<"-vs_debugger", "#", "link-tree">>,
      <<"-interp", "#", "link-tree">>,
      <<"-ipython", "#", "link-tree">> }

Wildcard == <<"/", ".", ".", ".">>

\* ---------------------------------------------------- Target Path Mapper
\* mutant: one leading separator is stripped, not all of them
presumed_target_root_StripOne(target) ==
    Split(Replace(IF target # <<>> /\ Head(target) = "/" THEN Tail(target) ELSE target,
                  Wildcard, <<>>), ":")[1]

\* lines 25-29
presumed_target_root(target) ==
    Split(Replace(LStrip(target, {"/"}), Wildcard, <<>>), ":")[1]

\* -------------------------------------------------------------- filesystem
\* glob.glob: "*" matches any run of tokens inside one path component
RECURSIVE GlobMatch(_, _)
GlobMatch(pattern, name) ==
    IF pattern = <<>> THEN name = <<>>
    ELSE IF Head(pattern) = "*"
         THEN \/ GlobMatch(Tail(pattern), name)
              \/ name # <<>> /\ Head(name) # "/" /\ GlobMatch(pattern, Tail(name))
         ELSE name # <<>> /\ Head(name) = Head(pattern)
              /\ GlobMatch(Tail(pattern), Tail(name))

\* os.path.join(a, b) for a ending in "/"
PathJoin(a, b) == IF b # <<>> /\ Head(b) = "/" THEN b ELSE a \o b

\* every path the model's disk may hold, in directory-listing order
LinkTreeXY == GenRoot \o <<"x", "/", "y", "#", "link-tree">>

\* a link tree of the interpreter flavour, which the scanner leaves out
ReservedXY == GenRoot \o <<"x", "/", "y", "#", "-interp", "#", "link-tree">>

LinkTreeZW == GenRoot \o <<"z", "/", "w", "#", "link-tree">>

OutXY == <<"out">>

Listing == <<LinkTreeXY, ReservedXY, LinkTreeZW, OutXY>>

Glob(pattern, disk) ==
    SelectSeq(Listing, LAMBDA p : p \in disk /\ GlobMatch(pattern, p))

\* ------------------------------------------------------ Directory Scanner
\* (CHOOSE v \in { e : x \in {a} } : TRUE is e with x naming the value of a,
\* worked out once.)
TargetPath(target) ==
    Replace(IF StartsWith(target, <<"/", "/">>)
            THEN SubSeq(target, 3, Len(target))
            ELSE target,
            <<":">>, <<"/">>)

DiscoveredSourceDirectories(target, disk) ==
    Glob(PathJoin(GenRoot, TargetPath(target) \o LinkTreeGlobSuffix), disk)

\* mutant: an empty output path is globbed like any other
Built_GlobOnly(target_destination, disk) ==
    /\ target_destination # None
    /\ Len(Glob(target_destination[1], disk)) > 0

\* lines 45-48
Built(target_destination, disk) ==
    /\ target_destination # None
    /\ \/ target_destination[1] = <<>>
       \/ Len(Glob(target_destination[1], disk)) > 0

NotFound(target, target_destination, disk) ==
    /\ ~Built(target_destination, disk)
    /\ Len(DiscoveredSourceDirectories(target, disk)) = 0

\* mutant: no discovered directory is left out
IsReserved_Never(tree) == FALSE

\* lines 54-62
IsReserved(tree) == \E suffix \in ReservedSuffixes : EndsWith(tree, suffix)

RECURSIVE _find_source_directories(_, _)
_find_source_directories(targets_map, disk) ==
    IF targets_map = <<>>
    THEN [source_directories |-> <<>>, targets_not_found |-> <<>>]
    ELSE LET n == Len(targets_map)
             target == targets_map[n].k
         IN CHOOSE buck_out \in
              { [source_directories |->
                     before.source_directories
                         \o SelectSeq(discovered, LAMBDA tree : ~IsReserved(tree)),
                 targets_not_found |->
                     IF NotFound(target, targets_map[n].v, disk)
                     THEN Append(before.targets_not_found, target)
                     ELSE before.targets_not_found] :
                before \in {_find_source_directories(SubSeq(targets_map, 1, n - 1), disk)},
                discovered \in {DiscoveredSourceDirectories(target, disk)} } : TRUE

\* ------------------------------------------------------ Target Normalizer
\* The file at CACHE_PATH: what it holds and what the process may do to it.
\*   state "missing"   - no such file
\*   state "malformed" - text json.load rejects with JSONDecodeError
\*   state "undecodable" - bytes the text-mode read rejects (UnicodeDecodeError)
\*   state "nonobject" - valid JSON that is not an object (a list, null, ...)
\*   state "object"    - a JSON object, held in map (key -> list of lines)
EmptyMap == [key \in {} |-> <<>>]

\* mutant: the written map holds the new entry alone
MapPut_Fresh(map, key, lines) == [k \in {key} |-> lines]

\* line 109: cache[serialized_targets] = targets_to_destinations
MapPut(map, key, lines) ==
    [k \in DOMAIN map \cup {key} |-> IF k = key THEN lines ELSE map[k]]

serialized_targets(targets) == Join(targets, <<",">>)

\* lines 73-77: cache = {}; open(CACHE_PATH); cache = json.load(cache_file)
LoadCache(file) ==
    IF file.state = "missing" \/ ~file.readable
    THEN [kind |-> "IOError", cache |-> EmptyMap]
    ELSE IF file.state = "malformed"
    THEN [kind |-> "JSONDecodeError", cache |-> EmptyMap]
    ELSE IF file.state = "undecodable"
    THEN [kind |-> "UnicodeDecodeError", cache |-> EmptyMap]
    ELSE IF file.state = "nonobject"
    THEN [kind |-> "nonobject", cache |-> EmptyMap]
    ELSE [kind |-> "object", cache |-> file.map]

\* mutant: the cached entry is never consulted
LookupAttempted_Never(loaded, use_cache) == FALSE

\* lines 78-80: the lookup cache[serialized_targets] is attempted
LookupAttempted(loaded, use_cache) ==
    use_cache /\ loaded.kind \in {"nonobject", "object"}

\* mutant: the rewritten cache never reaches the disk
StoreCache_Dropped(file, cache) == file

\* lines 110-115: open(CACHE_PATH, "w+"); json.dump(cache, cache_file)
StoreCache(file, cache) ==
    IF file.writable
    THEN [file EXCEPT !.state = "object", !.map = cache]
    ELSE file

\* lines 92-97: check_output(...).decode().strip().split("\n")
ParseOutput(stdout) == Split(Strip(stdout), "\n")

NormalizeReturn(lines, file, invoked) ==
    [ret |-> lines, exc |-> "None", invoked |-> invoked, file |-> file]

NormalizeRaise(kind, file, invoked) ==
    [ret |-> <<>>, exc |-> kind, invoked |-> invoked, file |-> file]

\* mutant: the cache file is opened for writing before the tool is run
QueryAndStore_Clobbering(key, loaded, file, outcome) ==
    IF outcome.kind = "timeout"
    THEN NormalizeRaise("BuildToolHung",
                        [file EXCEPT !.state = "malformed", !.map = EmptyMap], TRUE)
    ELSE IF outcome.kind = "error"
    THEN NormalizeRaise("BuildToolQueryFailed",
                        [file EXCEPT !.state = "malformed", !.map = EmptyMap], TRUE)
    ELSE NormalizeReturn(
             ParseOutput(outcome.stdout),
             StoreCache(file, MapPut(loaded.cache, key, ParseOutput(outcome.stdout))),
             TRUE)

\* lines 86-129: the query, the cache update and the two typed failures
QueryAndStore(key, loaded, file, outcome) ==
    IF outcome.kind = "timeout" THEN NormalizeRaise("BuildToolHung", file, TRUE)
    ELSE IF outcome.kind = "error"
    THEN NormalizeRaise("BuildToolQueryFailed", file, TRUE)
    ELSE CHOOSE returned \in
           { IF Len(targets_to_destinations) = 0
             THEN NormalizeReturn(<<>>, file, TRUE)
             ELSE IF loaded.kind = "nonobject"
             THEN NormalizeRaise("TypeError", file, TRUE)
             ELSE NormalizeReturn(
                      targets_to_destinations,
                      StoreCache(file, MapPut(loaded.cache, key, targets_to_destinations)),
                      TRUE) :
             targets_to_destinations \in {ParseOutput(outcome.stdout)} } : TRUE

_normalize(targets, use_cache, file, outcome) ==
    LET key == serialized_targets(targets)
        loaded == LoadCache(file)
    IN IF loaded.kind = "UnicodeDecodeError"
       THEN NormalizeRaise("UnicodeDecodeError", file, FALSE)
       ELSE IF LookupAttempted(loaded, use_cache) /\ loaded.kind = "nonobject"
       THEN NormalizeRaise("TypeError", file, FALSE)
       ELSE IF LookupAttempted(loaded, use_cache) /\ key \in DOMAIN loaded.cache
       THEN NormalizeReturn(loaded.cache[key], file, FALSE)
       ELSE QueryAndStore(key, loaded, file, outcome)

\* ----------------------------------------------------------------- Builder
\* lines 132-146: a zero exit returns, a non-zero exit raises
_build_targets(targets, outcome) ==
    IF outcome.kind = "ok" THEN "None" ELSE "BuildToolBuildFailed"

\* ------------------------------------------------------------ environment
\* the original targets a caller may pass
WildcardX == <<"/", "/", "x">> \o Wildcard

TargetZW == <<"/", "/", "z", ":", "w">>

OriginalUniverse == {WildcardX, TargetZW}

OriginalLists ==
    UNION { [1..n -> OriginalUniverse] : n \in 1..MaxOriginals }

\* what a standalone _normalize call is given
NormalizeLists == { <<WildcardX>>, <<WildcardX, TargetZW>> }

\* the lines `buck targets --show-output` may print, in the order it prints them
LineXYOut == <<"/", "/", "x", ":", "y", " ", "out">>

LineXY == <<"/", "/", "x", ":", "y">>

LineZWOut == <<"/", "/", "z", ":", "w", " ", "out">>

LineList == <<LineXYOut, LineXY, LineZWOut>>

RECURSIVE Stdout(_)
Stdout(lines) ==
    IF lines = <<>> THEN <<>> ELSE Head(lines) \o <<"\n">> \o Stdout(Tail(lines))

Stdouts ==
    { Stdout(SelectSeq(LineList, LAMBDA l : l \in chosen)) :
        chosen \in { c \in SUBSET Range(LineList) : Cardinality(c) <= MaxLines } }

\* one run of the external tool: exit 0 with its stdout, non-zero exit, or hung
QueryOutcomes ==
    { [kind |-> "ok", stdout |-> out] : out \in Stdouts }
        \cup { [kind |-> "error", stdout |-> <<>>], [kind |-> "timeout", stdout |-> <<>>] }

\* the runs a standalone _normalize call may see: the tool prints the first n lines
StandaloneOutcomes ==
    { [kind |-> "ok", stdout |-> Stdout(SubSeq(LineList, 1, n))] :
        n \in { k \in 0..MaxLines : k <= Len(LineList) } }
        \cup { [kind |-> "error", stdout |-> <<>>], [kind |-> "timeout", stdout |-> <<>>] }

\* the sets of paths the orchestrator may find on the disk, or a build may create
Disks ==
    SUBSET {LinkTreeXY, LinkTreeZW, OutXY}
        \cup { {ReservedXY}, {LinkTreeXY, ReservedXY} }

BuildOutcomes ==
    { [kind |-> "ok", created |-> c] : c \in Disks }
        \cup { [kind |-> "error", created |-> {}] }

CacheFile(state, map, readable, writable) ==
    [state |-> state, map |-> map, readable |-> readable, writable |-> writable]

CachedLines == <<LineXYOut>>

\* ------------------------------------------------------------------ state
VARIABLES
    pc,                  \* where generate_source_directories is
    original_targets, build, prompt, use_cache,   \* arguments of the running pass
    disk,                \* the paths that exist
    cacheFile,           \* the file at CACHE_PATH
    source_directories, targets_not_found, full_targets_map, unbuilt_targets,
    result,              \* the list the top-level call returned
    exc,                 \* the exception the top-level call raised
    hist,                \* what the top-level call has done so far
    call, prev, calls,   \* the last two standalone _normalize calls
    rootCall,            \* a standalone presumed_target_root call
    scanCall,            \* a standalone _find_source_directories call
    buildCall,           \* a standalone _build_targets call
    race                 \* two _normalize invocations sharing the cache file

vars == <<pc, original_targets, build, prompt, use_cache, disk, cacheFile,
          source_directories, targets_not_found, full_targets_map,
          unbuilt_targets, result, exc, hist, call, prev, calls,
          rootCall, scanCall, buildCall, race>>

orchestratorVars == <<pc, original_targets, build, prompt, use_cache, disk,
                      source_directories, targets_not_found, full_targets_map,
                      unbuilt_targets, result, exc, hist>>

normalizerVars == <<call, prev, calls>>

unitVars == <<rootCall, scanCall, buildCall, race>>

Idle == [done |-> FALSE]

NoException == [kind |-> "None", targets |-> <<>>]

NoScan == [source_directories |-> <<>>, targets_not_found |-> <<>>]

NoHistory ==
    [passes |-> <<>>, prompts |-> 0, queries |-> 0, builds |-> <<>>,
     first |-> NoScan, scan |-> NoScan,
     answer |-> "none", passQueries |-> 0, outcome |-> "none"]

NoCall ==
    [done |-> FALSE, targets |-> <<>>, use_cache |-> FALSE, outcome |-> "none",
     zero |-> FALSE, before |-> CacheFile("missing", EmptyMap, TRUE, TRUE),
     ret |-> <<>>, exc |-> "None", invoked |-> FALSE]

\* ------------------------------------------------------------ Orchestrator
\* lines 160-170: the sub-map of one original target
RECURSIVE NormalizedTargetsMap(_, _)
NormalizedTargetsMap(original_target, targets_to_destinations) ==
    IF targets_to_destinations = <<>> THEN <<>>
    ELSE LET n == Len(targets_to_destinations)
         IN CHOOSE map \in
              { IF StartsWith(presumed_target_root(pair[1]),
                              presumed_target_root(original_target))
                THEN IF Len(pair) > 1
                     THEN Put(before, pair[1], Some(pair[2]))
                     ELSE Put(before, pair[1], Some(<<>>))
                ELSE before :
                before \in {NormalizedTargetsMap(original_target,
                                                 SubSeq(targets_to_destinations, 1, n - 1))},
                pair \in {Split(targets_to_destinations[n], " ")} } : TRUE

\* lines 155-170
RECURSIVE FullTargetsMap(_, _)
FullTargetsMap(not_found, targets_to_destinations) ==
    IF not_found = <<>> THEN <<>>
    ELSE LET n == Len(not_found)
         IN Put(FullTargetsMap(SubSeq(not_found, 1, n - 1), targets_to_destinations),
                not_found[n],
                NormalizedTargetsMap(not_found[n], targets_to_destinations))

\* mutant: the build flag is not consulted
ShouldBuild_IgnoringFlag(b, targets_map) == targets_map # <<>>

\* line 172
ShouldBuild(b, targets_map) == b /\ targets_map # <<>>

\* mutant: the builder is given the expanded targets of every sub-map
BuildArguments_Expanded(targets_map) ==
    Flatten([i \in DOMAIN targets_map |-> Keys(targets_map[i].v)])

\* line 173
BuildArguments(targets_map) == Keys(targets_map)

\* mutant: one missing expanded target is tolerated
IsUnbuilt_Partial(buck_out) == Len(buck_out.targets_not_found) > 1

\* line 179
IsUnbuilt(buck_out) == Len(buck_out.targets_not_found) > 0

\* lines 175-181
RECURSIVE Rescan(_, _)
Rescan(targets_map, d) ==
    IF targets_map = <<>>
    THEN [source_directories |-> <<>>, unbuilt_targets |-> <<>>]
    ELSE LET n == Len(targets_map)
         IN CHOOSE rescan \in
              { [source_directories |->
                     before.source_directories \o buck_out.source_directories,
                 unbuilt_targets |->
                     IF IsUnbuilt(buck_out)
                     THEN Append(before.unbuilt_targets, targets_map[n].k)
                     ELSE before.unbuilt_targets] :
                before \in {Rescan(SubSeq(targets_map, 1, n - 1), d)},
                buck_out \in {_find_source_directories(targets_map[n].v, d)} } : TRUE

\* mutant: the recursive call passes the caller's flags on
RetryArguments_Prompting == [build |-> FALSE, prompt |-> TRUE, use_cache |-> FALSE]

\* mutant: the recursive call asks for the cache
RetryArguments_Cached == [build |-> TRUE, prompt |-> FALSE, use_cache |-> TRUE]

\* mutant: the recursive call neither builds nor prompts, so it calls itself again
RetryArguments_Unforced == [build |-> FALSE, prompt |-> FALSE, use_cache |-> TRUE]

\* mutant: the recursive call does not ask for a build
RetryArguments_NoBuild == [build |-> FALSE, prompt |-> FALSE, use_cache |-> FALSE]

\* lines 198-200: generate_source_directories(original_targets, build=True, prompt=False)
RetryArguments == [build |-> TRUE, prompt |-> FALSE, use_cache |-> FALSE]

LinkTreesMissing(unbuilt) == [kind |-> "LinkTreesMissing", targets |-> unbuilt]

Raise(kind) == [kind |-> kind, targets |-> <<>>]

Init ==
    /\ pc = "Scanning"
    /\ original_targets \in OriginalLists
    /\ build \in BOOLEAN
    /\ prompt \in BOOLEAN
    /\ use_cache \in BOOLEAN
    /\ disk \in Disks
    /\ \E writable \in BOOLEAN :
         cacheFile \in
           { CacheFile("missing", EmptyMap, TRUE, writable),
             CacheFile("object",
                       MapPut(EmptyMap, serialized_targets(original_targets), CachedLines),
                       TRUE, writable) }
    /\ source_directories = <<>>
    /\ targets_not_found = <<>>
    /\ full_targets_map = <<>>
    /\ unbuilt_targets = <<>>
    /\ result = <<>>
    /\ exc = NoException
    /\ hist = [NoHistory EXCEPT
                 !.passes = << [build |-> build, prompt |-> prompt,
                                use_cache |-> use_cache] >>]
    /\ call = NoCall
    /\ prev = NoCall
    /\ calls = 0
    /\ rootCall = Idle
    /\ scanCall = Idle
    /\ buildCall = Idle
    /\ race = Idle

\* lines 152-156: the scan of the original targets
Scan ==
    /\ pc = "Scanning"
    /\ \E buck_out \in {_find_source_directories(FromKeys(original_targets, None), disk)} :
          /\ source_directories' = buck_out.source_directories
          /\ targets_not_found' = buck_out.targets_not_found
          /\ hist' = [hist EXCEPT !.scan = buck_out,
                                  !.first = IF Len(hist.passes) = 1 THEN buck_out ELSE @]
          /\ pc' = IF buck_out.targets_not_found # <<>> THEN "Normalizing" ELSE "Rescanning"
    /\ full_targets_map' = <<>>
    /\ UNCHANGED <<original_targets, build, prompt, use_cache, disk, cacheFile,
                   unbuilt_targets, result, exc>>
    /\ UNCHANGED <<normalizerVars, unitVars>>

\* lines 157-172: _normalize, then the partition of its lines
Normalize ==
    /\ pc = "Normalizing"
    /\ \E outcome \in QueryOutcomes :
         \E r \in {_normalize(targets_not_found, use_cache, cacheFile, outcome)} :
         \E targets_map \in {FullTargetsMap(targets_not_found, r.ret)} :
            /\ cacheFile' = r.file
            /\ hist' = [hist EXCEPT
                           !.queries = IF r.invoked THEN @ + 1 ELSE @,
                           !.passQueries = IF r.invoked THEN @ + 1 ELSE @,
                           !.outcome = IF r.invoked THEN outcome.kind ELSE "none"]
            /\ IF r.exc # "None"
               THEN /\ pc' = "Failed"
                    /\ exc' = Raise(r.exc)
                    /\ UNCHANGED full_targets_map
               ELSE /\ pc' = IF ShouldBuild(build, targets_map)
                             THEN "Building" ELSE "Rescanning"
                    /\ full_targets_map' = targets_map
                    /\ UNCHANGED exc
    /\ UNCHANGED <<original_targets, build, prompt, use_cache, disk,
                   source_directories, targets_not_found, unbuilt_targets, result>>
    /\ UNCHANGED <<normalizerVars, unitVars>>

\* line 173: _build_targets; a build that exits 0 may have created any outputs
Build ==
    /\ pc = "Building"
    /\ \E outcome \in BuildOutcomes :
         \E raised \in {_build_targets(BuildArguments(full_targets_map), outcome)} :
            /\ hist' = [hist EXCEPT !.builds = Append(@, BuildArguments(full_targets_map))]
            /\ disk' = disk \cup outcome.created
            /\ IF raised # "None"
               THEN pc' = "Failed" /\ exc' = Raise(raised)
               ELSE pc' = "Rescanning" /\ UNCHANGED exc
    /\ UNCHANGED <<original_targets, build, prompt, use_cache, cacheFile,
                   source_directories, targets_not_found, full_targets_map,
                   unbuilt_targets, result>>
    /\ UNCHANGED <<normalizerVars, unitVars>>

RetryHistory(h) ==
    [h EXCEPT !.passes = Append(@, RetryArguments), !.passQueries = 0,
              !.outcome = "none"]

\* mutant: the answer is not consulted
Proceeds_Always(asked, yes) == TRUE

\* line 197: not prompt or log.get_yes_no_input("Build target?")
Proceeds(asked, yes) == ~asked \/ yes

\* lines 198-200: the recursive call starts a new pass with fresh locals
Retry ==
    /\ Len(hist.passes) < MaxPasses
    /\ pc' = "Scanning"
    /\ build' = RetryArguments.build
    /\ prompt' = RetryArguments.prompt
    /\ use_cache' = RetryArguments.use_cache
    /\ source_directories' = <<>>
    /\ targets_not_found' = <<>>
    /\ full_targets_map' = <<>>
    /\ unbuilt_targets' = <<>>
    /\ UNCHANGED <<original_targets, disk, cacheFile, result, exc>>

\* lines 175-207: the re-scan of every sub-map and the decision
Rescanning ==
    /\ pc = "Rescanning"
    /\ \E rescan \in {Rescan(full_targets_map, disk)} :
       \E directories \in {source_directories \o rescan.source_directories} :
          IF Len(rescan.unbuilt_targets) > 0
          THEN IF build
               THEN /\ pc' = "Failed"
                    /\ exc' = LinkTreesMissing(rescan.unbuilt_targets)
                    /\ source_directories' = directories
                    /\ unbuilt_targets' = rescan.unbuilt_targets
                    /\ UNCHANGED <<original_targets, build, prompt, use_cache, disk,
                                   cacheFile, targets_not_found, full_targets_map,
                                   result, hist>>
               ELSE IF ~prompt
               THEN /\ Retry
                    /\ hist' = RetryHistory(hist)
               ELSE /\ pc' = "AwaitingPrompt"
                    /\ source_directories' = directories
                    /\ unbuilt_targets' = rescan.unbuilt_targets
                    /\ hist' = [hist EXCEPT !.prompts = @ + 1]
                    /\ UNCHANGED <<original_targets, build, prompt, use_cache, disk,
                                   cacheFile, targets_not_found, full_targets_map,
                                   result, exc>>
          ELSE /\ pc' = "Succeeded"
               /\ result' = directories
               /\ source_directories' = directories
               /\ unbuilt_targets' = rescan.unbuilt_targets
               /\ UNCHANGED <<original_targets, build, prompt, use_cache, disk,
                              cacheFile, targets_not_found, full_targets_map,
                              exc, hist>>
    /\ UNCHANGED <<normalizerVars, unitVars>>

\* lines 197-206: the operator answers log.get_yes_no_input("Build target?")
Answer ==
    /\ pc = "AwaitingPrompt"
    /\ \E yes \in BOOLEAN :
         IF Proceeds(prompt, yes)
         THEN /\ Retry
              /\ hist' = RetryHistory([hist EXCEPT
                                          !.answer = IF yes THEN "yes" ELSE "no"])
         ELSE /\ pc' = "Failed"
              /\ exc' = LinkTreesMissing(unbuilt_targets)
              /\ hist' = [hist EXCEPT !.answer = IF yes THEN "yes" ELSE "no"]
              /\ UNCHANGED <<original_targets, build, prompt, use_cache, disk,
                             cacheFile, source_directories, targets_not_found,
                             full_targets_map, unbuilt_targets, result>>
    /\ UNCHANGED <<normalizerVars, unitVars>>

Next == Scan \/ Normalize \/ Build \/ Rescanning \/ Answer

Spec == Init /\ [][Next]_vars

\* ------------------------------------------- standalone _normalize calls
\* the cache files a call may find at CACHE_PATH
KeyX == serialized_targets(<<WildcardX>>)

CacheFiles ==
    { CacheFile(state, EmptyMap, readable, writable) :
        state \in {"missing", "malformed", "undecodable", "nonobject", "object"},
        readable \in BOOLEAN, writable \in BOOLEAN }
    \cup
    { CacheFile("object", MapPut(EmptyMap, KeyX, CachedLines), readable, writable) :
        readable \in BOOLEAN, writable \in BOOLEAN }

InitNormalize ==
    /\ pc = "Idle"
    /\ original_targets = <<>>
    /\ build = FALSE
    /\ prompt = FALSE
    /\ use_cache = FALSE
    /\ disk \in {{}, Range(Listing)}
    /\ cacheFile \in CacheFiles
    /\ source_directories = <<>>
    /\ targets_not_found = <<>>
    /\ full_targets_map = <<>>
    /\ unbuilt_targets = <<>>
    /\ result = <<>>
    /\ exc = NoException
    /\ hist = NoHistory
    /\ call = NoCall
    /\ prev = NoCall
    /\ calls = 0
    /\ rootCall = Idle
    /\ scanCall = Idle
    /\ buildCall = Idle
    /\ race = Idle

\* lines 67-129: one call of _normalize, from entry to return or raise
NormalizeCall ==
    /\ pc = "Idle"
    /\ calls < MaxCalls
    /\ \E targets \in NormalizeLists, cached \in BOOLEAN, outcome \in StandaloneOutcomes :
         LET r == _normalize(targets, cached, cacheFile, outcome)
         IN /\ cacheFile' = r.file
            /\ call' = [done |-> TRUE, targets |-> targets, use_cache |-> cached,
                        outcome |-> IF r.invoked THEN outcome.kind ELSE "none",
                        zero |-> r.invoked /\ outcome.kind = "ok"
                                     /\ outcome.stdout = <<>>,
                        before |-> cacheFile,
                        ret |-> r.ret, exc |-> r.exc, invoked |-> r.invoked]
    /\ prev' = call
    /\ calls' = calls + 1
    /\ UNCHANGED <<orchestratorVars, unitVars>>

NextNormalize == NormalizeCall

SpecNormalize == InitNormalize /\ [][NextNormalize]_vars

\* ================================================================= claims
Terminal == {"Succeeded", "Failed"}

Top == hist.passes[1]

BuildCount == Len(hist.builds)

SubjectOfBuild(target) ==
    \E i \in DOMAIN hist.builds : target \in Range(hist.builds[i])

\* the expanded targets of a sub-map that have no output on the disk
Missing(sub_map, d) ==
    { i \in DOMAIN sub_map : NotFound(sub_map[i].k, sub_map[i].v, d) }

\* neither the target nor anything it expanded to has an output on the disk
NoDiscoverableOutput(target) ==
    /\ Len(DiscoveredSourceDirectories(target, disk)) = 0
    /\ HasKey(full_targets_map, target)
    /\ LET sub_map == Get(full_targets_map, target)
       IN \A i \in DOMAIN sub_map :
            /\ ~Built(sub_map[i].v, disk)
            /\ Len(DiscoveredSourceDirectories(sub_map[i].k, disk)) = 0

\* C1: a call never returns successfully while an original target that the
\* initial scan reported not found, and that still has no discoverable
\* output, was neither the subject of a build attempt nor reported.
C1_NoSilentDrops ==
    pc = "Succeeded" =>
        \A target \in Range(hist.first.targets_not_found) :
            NoDiscoverableOutput(target) => SubjectOfBuild(target)

\* C2: a top-level call enters Scanning at most twice, the second time with
\* build=true and prompt=false; the operator is asked at most once and never
\* in the retry pass.
C2_SingleRetry ==
    /\ Len(hist.passes) <= 2
    /\ Len(hist.passes) = 2 => build /\ ~prompt /\ hist.passes[2].build
                               /\ ~hist.passes[2].prompt
    /\ hist.prompts <= 1
    /\ pc = "AwaitingPrompt" => Len(hist.passes) = 1

C2_Witness ==
    /\ Len(hist.passes) = 2
    /\ hist.prompts = 1
    /\ pc = "Failed"
    /\ exc.kind = "LinkTreesMissing"

\* the top-level call had build=false, prompt=false and its first scan found
\* none of the original targets
UnpromptedCase ==
    /\ ~Top.build
    /\ ~Top.prompt
    /\ hist.first.targets_not_found = Keys(FromKeys(original_targets, None))
    /\ hist.first.source_directories = <<>>

ToolFailures == {"BuildToolHung", "BuildToolQueryFailed", "BuildToolBuildFailed"}

\* every original target of the running pass expanded to some target
AllExpanded ==
    /\ full_targets_map # <<>>
    /\ \A i \in DOMAIN full_targets_map : full_targets_map[i].v # <<>>

\* C3 as stated: in the unprompted case (no tool invocation failing, every
\* original target expanded by the query) the operator is never asked, a
\* build invocation is performed, and targets still unbuilt after it make
\* the call raise link-trees-missing with no further pass.
C3_Original ==
    ( /\ UnpromptedCase
      /\ pc \in Terminal
      /\ exc.kind \notin ToolFailures
      /\ AllExpanded ) =>
        /\ hist.prompts = 0
        /\ BuildCount = 1
        /\ unbuilt_targets # <<>> =>
             /\ pc = "Failed"
             /\ exc = LinkTreesMissing(unbuilt_targets)
             /\ Len(hist.passes) = 2

\* C3 amended: in the unprompted case the operator is never asked; the first
\* pass performs no build and never raises link-trees-missing, and returns
\* only when its re-scan left nothing unbuilt; a retry pass whose scan again
\* reports a target not found and whose query succeeds performs exactly one
\* build invocation; targets still unbuilt after that build make the call
\* raise link-trees-missing, with no third pass.
C3_RetryWithoutPrompt ==
    UnpromptedCase =>
        /\ hist.prompts = 0
        /\ Len(hist.passes) = 1 =>
             /\ BuildCount = 0
             /\ exc.kind # "LinkTreesMissing"
             /\ pc = "Succeeded" =>
                  \A i \in DOMAIN full_targets_map :
                      Missing(full_targets_map[i].v, disk) = {}
        /\ ( /\ Len(hist.passes) = 2
             /\ targets_not_found # <<>>
             /\ pc \in {"Building", "Rescanning"} \cup Terminal
             /\ exc.kind \notin {"BuildToolHung", "BuildToolQueryFailed"} )
           => BuildCount = (IF pc = "Building" THEN 0 ELSE 1)
        /\ (pc \in Terminal /\ unbuilt_targets # <<>>) =>
             /\ pc = "Failed"
             /\ exc = LinkTreesMissing(unbuilt_targets)
             /\ Len(hist.passes) = 2
             /\ BuildCount = 1
        /\ Len(hist.passes) <= 2

C3_Witness ==
    /\ UnpromptedCase
    /\ Len(hist.passes) = 2
    /\ BuildCount = 1
    /\ pc = "Failed"
    /\ exc.kind = "LinkTreesMissing"

\* C4: a top-level call performs at most one build invocation over both
\* passes, and exactly one when it was called with build=true, the initial
\* scan reported a target not found, and the build returned.
C4_BuildCount ==
    /\ BuildCount <= 1
    /\ ( /\ Top.build
         /\ hist.first.targets_not_found # <<>>
         /\ \/ pc \in {"Rescanning", "Succeeded"}
            \/ pc = "Failed" /\ exc.kind = "LinkTreesMissing" )
       => BuildCount = 1

C4_Witness ==
    /\ Top.build
    /\ hist.first.targets_not_found # <<>>
    /\ pc = "Succeeded"
    /\ BuildCount = 1

\* the expanded target identifiers of every sub-map
ExpandedTargets ==
    UNION { Range(Keys(full_targets_map[i].v)) : i \in DOMAIN full_targets_map }

Built_Pass == BuildCount > 0 /\ full_targets_map # <<>>

\* C5 as stated: the targets passed to the Builder are the expanded target
\* identifiers, the keys of every sub-map of full_targets_map.
C5_Original ==
    Built_Pass => Range(hist.builds[BuildCount]) = ExpandedTargets

\* C5 amended: the list passed to the Builder is the list of keys of
\* full_targets_map itself: the original targets the pass's scan reported
\* not found, in scan order.
C5_BuildArguments ==
    Built_Pass => hist.builds[BuildCount] = targets_not_found

C5_Witness ==
    /\ Built_Pass
    /\ Len(targets_not_found) = 2
    /\ ExpandedTargets # {}
    /\ ExpandedTargets # Range(targets_not_found)

\* the last standalone call queried the tool, which exited 0 and printed nothing
EmptyQueryCase ==
    /\ call.done
    /\ call.invoked
    /\ call.zero
    /\ call.before.state \in {"missing", "object"}

\* C6: when the query exits successfully with zero lines of output,
\* _normalize returns an empty sequence and does not fail.
C6_EmptyQueryResult ==
    EmptyQueryCase => call.exc = "None" /\ Len(call.ret) = 0

\* a successful call with a one-element list is followed by a call with the
\* same list and use_cache=true
RoundTripCase ==
    /\ prev.done
    /\ prev.exc = "None"
    /\ Len(prev.targets) = 1
    /\ call.done
    /\ call.targets = prev.targets
    /\ call.use_cache

RoundTrip ==
    /\ call.exc = "None"
    /\ call.ret = prev.ret
    /\ ~call.invoked

HitCase ==
    /\ call.done
    /\ call.use_cache
    /\ call.before.state = "object"
    /\ call.before.readable
    /\ serialized_targets(call.targets) \in DOMAIN call.before.map

\* C8: a call with use_cache=true whose key is in the cache returns the stored
\* lines, invokes no tool and leaves the cache file unchanged, whatever the
\* disk holds.
C8_CacheHit ==
    HitCase =>
        /\ call.exc = "None"
        /\ call.ret = call.before.map[serialized_targets(call.targets)]
        /\ ~call.invoked
        /\ cacheFile = call.before

C8_Witness ==
    /\ HitCase
    /\ ~call.invoked
    /\ disk # {}
    /\ ~call.before.writable

\* C9: whatever the cache file holds, _normalize never fails because of it:
\* it raises only what the tool invocation determines, and on anything but a
\* hit it invokes the tool.
C9_CacheNeverFatal ==
    call.done =>
        /\ call.exc \in {"None", "BuildToolHung", "BuildToolQueryFailed"}
        /\ ~HitCase => call.invoked
        /\ call.invoked =>
             /\ call.exc = "BuildToolHung" <=> call.outcome = "timeout"
             /\ call.exc = "BuildToolQueryFailed" <=> call.outcome = "error"

\* the original targets whose sub-map has an expanded target not found
Unbuilt(targets_map, d) ==
    SelectSeq(Keys(targets_map),
              LAMBDA target : Missing(Get(targets_map, target), d) # {})

\* the re-scan directories of each sub-map, in map order
RescanDirectories(targets_map, d) ==
    Flatten([i \in DOMAIN targets_map |->
                _find_source_directories(targets_map[i].v, d).source_directories])

TerminalDecision ==
    /\ pc \notin Terminal
    /\ pc = "Rescanning" =>
         /\ pc' = "Succeeded" <=> Unbuilt(full_targets_map, disk) = <<>>
         /\ pc' = "Succeeded" =>
              result' = hist.scan.source_directories
                            \o RescanDirectories(full_targets_map, disk)
         /\ (build /\ Unbuilt(full_targets_map, disk) # <<>>) =>
              /\ pc' = "Failed"
              /\ exc' = LinkTreesMissing(Unbuilt(full_targets_map, disk))
              /\ UNCHANGED <<hist, disk, cacheFile>>

\* C10: a pass returns the accumulated directories (those of the initial
\* scan, then those of each sub-map's re-scan) exactly when no re-scan
\* reported an expanded target not found; with build=true and some such
\* target it raises link-trees-missing listing exactly those originals, and
\* nothing runs after either outcome.
C10_TerminalDecision == [][TerminalDecision]_vars

C10_Witness ==
    /\ pc = "Failed"
    /\ build
    /\ exc.kind = "LinkTreesMissing"
    /\ Len(full_targets_map) = 2
    /\ Len(exc.targets) = 1


\* the operator was asked and answered no
DeclinedCase == hist.answer = "no"

\* C11: when build=false, prompt=true, the re-scan leaves a target unbuilt
\* and the operator declines, the call raises link-trees-missing and the
\* whole call performs no build and no second scan.
C11_DeclinedPrompt ==
    DeclinedCase =>
        /\ ~Top.build
        /\ Top.prompt
        /\ unbuilt_targets # <<>>
        /\ pc = "Failed"
        /\ exc = LinkTreesMissing(unbuilt_targets)
        /\ BuildCount = 0
        /\ Len(hist.passes) = 1
        /\ hist.prompts = 1

C11_Witness ==
    /\ DeclinedCase
    /\ pc = "Failed"
    /\ Len(exc.targets) = 2


\* ------------------------------------------- standalone _build_targets calls
MaxStderrLines == 22   \* most lines the failing build writes to stderr

\* line 143: lines[-20:]
TailLines == 20

Contains(s, sub) ==
    \E i \in 0..(Len(s) - Len(sub)) : SubSeq(s, i + 1, i + Len(sub)) = sub

\* the i-th line the build tool writes to stderr
StderrLine(i) == <<"E", ToString(i)>>

RECURSIVE Stderr(_)
Stderr(n) ==
    IF n = 0 THEN <<>> ELSE Stderr(n - 1) \o StderrLine(n) \o <<"\n">>

\* str.splitlines(): the pieces between line ends, no empty piece at the end
SplitLines(text) ==
    LET ends == { i \in 1..Len(text) : text[i] = "\n" }
        open == Len(text) > 0 /\ text[Len(text)] # "\n"
        stop(k) == IF k > Cardinality(ends) THEN Len(text) + 1
                   ELSE CHOOSE e \in ends : Cardinality({ f \in ends : f <= e }) = k
        start(k) == IF k = 1 THEN 1 ELSE stop(k - 1) + 1
    IN [k \in 1..(Cardinality(ends) + IF open THEN 1 ELSE 0) |->
            SubSeq(text, start(k), stop(k) - 1)]

\* mutant: the whole stream is kept
LastLines_All(lines, k) == lines

\* lines[-k:]
LastLines(lines, k) ==
    IF Len(lines) <= k THEN lines ELSE SubSeq(lines, Len(lines) - k + 1, Len(lines))

\* line 143: the text handed to LOG.error
BuildErrorLog(stderr) ==
    <<"Buck returned error: ">>
        \o Join(LastLines(SplitLines(stderr), TailLines), <<"\n">>)

\* lines 144-146: the text of the BuckException (its two backquotes left out)
BuildErrorMessage ==
    <<"Could not build targets. Check the paths or run buck clean.">>

InitBuild ==
    /\ pc = "Idle"
    /\ original_targets = <<>>
    /\ build = FALSE
    /\ prompt = FALSE
    /\ use_cache = FALSE
    /\ disk = {}
    /\ cacheFile = CacheFile("missing", EmptyMap, TRUE, TRUE)
    /\ source_directories = <<>>
    /\ targets_not_found = <<>>
    /\ full_targets_map = <<>>
    /\ unbuilt_targets = <<>>
    /\ result = <<>>
    /\ exc = NoException
    /\ hist = NoHistory
    /\ call = NoCall
    /\ prev = NoCall
    /\ calls = 0
    /\ rootCall = Idle
    /\ scanCall = Idle
    /\ buildCall = Idle
    /\ race = Idle

\* lines 132-146: one call of _build_targets, from entry to return or raise
BuildCall ==
    /\ ~buildCall.done
    /\ \E targets \in OriginalLists, kind \in {"ok", "error"}, n \in 0..MaxStderrLines :
         LET raised == _build_targets(targets, [kind |-> kind, created |-> {}])
         IN buildCall' =
              [done |-> TRUE, targets |-> targets, exit |-> kind, lines |-> n,
               exc |-> raised,
               logged |-> IF raised = "None" THEN <<"Finished building targets.">>
                          ELSE BuildErrorLog(Stderr(n)),
               message |-> IF raised = "None" THEN <<>> ELSE BuildErrorMessage]
    /\ UNCHANGED <<orchestratorVars, cacheFile, normalizerVars, rootCall, scanCall, race>>

NextBuild == BuildCall

SpecBuild == InitBuild /\ [][NextBuild]_vars

\* the build exited non-zero after writing buildCall.lines lines to stderr
BuildFailedCase ==
    /\ buildCall.done
    /\ buildCall.exit = "error"

\* the line numbers that belong to the last min(n, 20) lines
KeptLines == { i \in 1..buildCall.lines : i > buildCall.lines - 20 }

\* C12 as stated: the failure raised by _build_targets carries in its message
\* exactly the last min(n, 20) lines of the diagnostic stream.
C12_Original ==
    BuildFailedCase =>
        /\ buildCall.exc = "BuildToolBuildFailed"
        /\ \A i \in 1..buildCall.lines :
             Contains(buildCall.message, StderrLine(i)) <=> i \in KeptLines

\* C12 amended: on a non-zero exit _build_targets logs an error that carries
\* exactly the last min(n, 20) lines of the diagnostic stream, in order, and
\* none of the earlier ones; the BuckException it raises has a fixed message
\* that carries no line of the stream.
C12_FailureTruncation ==
    BuildFailedCase =>
        /\ buildCall.exc = "BuildToolBuildFailed"
        /\ \A i \in 1..buildCall.lines :
             /\ Contains(buildCall.logged, StderrLine(i)) <=> i \in KeptLines
             /\ ~Contains(buildCall.message, StderrLine(i))
        /\ \A i \in KeptLines :
             i + 1 \in KeptLines =>
                 Contains(buildCall.logged, StderrLine(i) \o <<"\n">> \o StderrLine(i + 1))

C12_Witness ==
    /\ BuildFailedCase
    /\ buildCall.lines > 20
    /\ Contains(buildCall.logged, StderrLine(buildCall.lines))


\* --------------------------------------- standalone presumed_target_root calls
MaxPieces == 4   \* most pieces an input string is put together from

\* the pieces inputs are put together from: each character of the alphabet,
\* the wildcard and a run of three dots
RootPieces == { <<"/">>, <<".">>, <<":">>, <<"x">>, Wildcard, <<".", ".", ".">> }

RootInputs ==
    { Flatten(pieces) : pieces \in UNION { [1..n -> RootPieces] : n \in 0..MaxPieces } }

InitRoot == InitBuild

\* lines 25-29: presumed_target_root applied to an input, and again to its result
RootCall ==
    /\ ~rootCall.done
    /\ \E target \in RootInputs :
         rootCall' = [done |-> TRUE, target |-> target,
                      once |-> presumed_target_root(target),
                      twice |-> presumed_target_root(presumed_target_root(target))]
    /\ UNCHANGED <<orchestratorVars, cacheFile, normalizerVars, scanCall, buildCall, race>>

NextRoot == RootCall

SpecRoot == InitRoot /\ [][NextRoot]_vars

\* C13 as stated: presumed_target_root applied twice equals presumed_target_root
\* applied once, for every input string.
C13_Original ==
    rootCall.done => rootCall.twice = rootCall.once

\* the input holds a wildcard "/..." that is directly followed by one more "."
DottedWildcard == Contains(rootCall.target, Wildcard \o <<".">>)

\* C13 amended: presumed_target_root applied twice equals presumed_target_root
\* applied once for every input string in which no wildcard "/..." is directly
\* followed by a further "."; the result then starts with no "/" and holds
\* neither a wildcard nor a ":".
C13_Idempotent ==
    (rootCall.done /\ ~DottedWildcard) =>
        /\ rootCall.twice = rootCall.once
        /\ ~Contains(rootCall.once, Wildcard)
        /\ ~Contains(rootCall.once, <<":">>)
        /\ ~StartsWith(rootCall.once, <<"/">>)

C13_Witness ==
    /\ rootCall.done
    /\ ~DottedWildcard
    /\ StartsWith(rootCall.target, <<"/">>)
    /\ Contains(rootCall.target, Wildcard)
    /\ Contains(rootCall.target, <<":">>)
    /\ rootCall.once = <<"x">>
    /\ rootCall.twice = <<"x">>


\* ------------------------------------ standalone _find_source_directories calls
MaxTargets == 2   \* most entries of the map a standalone scan is given

ScanTargets == {LineXY, TargetZW, WildcardX}

\* a mapped output: null, the empty string, a path on the listing, a path never there
ScanDestinations == {None, Some(<<>>), Some(OutXY), Some(<<"gone">>)}

ScanMaps ==
    { m \in UNION { [1..n -> [k : ScanTargets, v : ScanDestinations]] : n \in 0..MaxTargets } :
        \A i, j \in DOMAIN m : i # j => m[i].k # m[j].k }

InitScan == InitBuild

\* lines 32-64: one call of _find_source_directories on a disk
ScanCall ==
    /\ ~scanCall.done
    /\ \E targets_map \in ScanMaps, d \in SUBSET Range(Listing) :
         scanCall' = [done |-> TRUE, targets_map |-> targets_map, disk |-> d,
                      out |-> _find_source_directories(targets_map, d)]
    /\ UNCHANGED <<orchestratorVars, cacheFile, normalizerVars, rootCall, buildCall, race>>

NextScan == ScanCall

SpecScan == InitScan /\ [][NextScan]_vars

\* the i-th target of the scanned map is not built: its output is null, or a
\* non-empty pattern that no path on the disk matches
ScanNotBuilt(i) ==
    LET v == scanCall.targets_map[i].v
    IN \/ v = None
       \/ v[1] # <<>> /\ ~\E p \in scanCall.disk : GlobMatch(v[1], p)

\* the link-tree glob of the i-th target matches no path on the disk
ScanNothingDiscovered(i) ==
    ~\E p \in scanCall.disk :
        GlobMatch(GenRoot \o TargetPath(scanCall.targets_map[i].k) \o <<"#", "*", "link-tree">>, p)

\* C14: _find_source_directories places a target in targets_not_found exactly
\* when it is not built and its link-tree glob discovered nothing; a target
\* mapped to the empty string is never placed there.
C14_ScannerClassification ==
    scanCall.done =>
        \A i \in DOMAIN scanCall.targets_map :
            LET target == scanCall.targets_map[i].k
                listed == target \in Range(scanCall.out.targets_not_found)
            IN /\ listed <=> (ScanNotBuilt(i) /\ ScanNothingDiscovered(i))
               /\ scanCall.targets_map[i].v = Some(<<>>) => ~listed

C14_Witness ==
    /\ scanCall.done
    /\ Len(scanCall.targets_map) = 2
    /\ scanCall.targets_map[1].v = Some(<<>>)
    /\ ScanNothingDiscovered(1)
    /\ scanCall.out.targets_not_found = <<scanCall.targets_map[2].k>>
    /\ scanCall.targets_map[2].v = Some(<<"gone">>)


\* the directory's name ends in the debugger, interpreter or notebook suffix
HasReservedSuffix(tree) ==
    \/ EndsWith(tree, <<"-vs_debugger", "#", "link-tree">>)
    \/ EndsWith(tree, <<"-interp", "#", "link-tree">>)
    \/ EndsWith(tree, <<"-ipython", "#", "link-tree">>)

\* C15: no directory a scan or re-scan collected, and no directory in the list
\* generate_source_directories returns after any sequence of passes, has a
\* name ending in the debugger, interpreter or notebook link-tree suffix.
C15_ReservedFiltered ==
    \A tree \in Range(source_directories) \cup Range(result)
                    \cup Range(hist.first.source_directories)
                    \cup Range(hist.scan.source_directories) :
        ~HasReservedSuffix(tree)

C15_Witness ==
    /\ pc = "Succeeded"
    /\ Len(hist.passes) = 2
    /\ ReservedXY \in disk
    /\ \E p \in DOMAIN full_targets_map :
         \E i \in DOMAIN full_targets_map[p].v :
             Len(DiscoveredSourceDirectories(full_targets_map[p].v[i].k, disk)) = 2
    /\ result = <<LinkTreeXY>>


\* ----------------------------- two _normalize invocations sharing CACHE_PATH
\* Each invocation takes four steps, and the other may run between any two:
\*   Load  - lines 73-85: read and parse the file, look the key up
\*   Query - lines 86-109: run the tool, put the answer into the loaded map
\*   Open  - line 111: open(CACHE_PATH, "w+") empties the file
\*   Dump  - lines 112-116: json.dump and close put the text at offset 0
Invocations == {1, 2}

RECURSIVE LinesLen(_)
LinesLen(lines) ==
    IF lines = <<>> THEN 0 ELSE Len(Head(lines)) + 4 + LinesLen(Tail(lines))

\* the length of the text json.dump writes for a map
RECURSIVE JsonLen(_)
JsonLen(map) ==
    IF DOMAIN map = {} THEN 2
    ELSE LET k == CHOOSE key \in DOMAIN map : TRUE
         IN Len(k) + 6 + LinesLen(map[k])
                + JsonLen([key \in DOMAIN map \ {k} |-> map[key]])

\* what each invocation is asked and what the tool answers it
RaceTargets == << <<WildcardX, TargetZW>>, <<WildcardX>> >>

RaceOutcomes ==
    << {[kind |-> "ok", stdout |-> Stdout(<<LineXYOut, LineZWOut>>)],
        [kind |-> "error", stdout |-> <<>>]},
       {[kind |-> "ok", stdout |-> Stdout(<<LineXYOut>>)],
        [kind |-> "ok", stdout |-> Stdout(<<LineXY>>)],
        [kind |-> "timeout", stdout |-> <<>>]} >>

Invocation(targets, cached) ==
    [pc |-> "Load", targets |-> targets, use_cache |-> cached,
     loaded |-> [kind |-> "none", cache |-> EmptyMap],
     cache |-> EmptyMap, ret |-> <<>>, exc |-> "None", outcome |-> "none"]

InitRace ==
    /\ pc = "Idle"
    /\ original_targets = <<>>
    /\ build = FALSE
    /\ prompt = FALSE
    /\ use_cache = FALSE
    /\ disk = {}
    /\ cacheFile \in { CacheFile("missing", EmptyMap, TRUE, TRUE),
                       CacheFile("object", MapPut(EmptyMap, KeyX, CachedLines), TRUE, TRUE),
                       CacheFile("object", MapPut(EmptyMap, KeyX, CachedLines), TRUE, FALSE) }
    /\ source_directories = <<>>
    /\ targets_not_found = <<>>
    /\ full_targets_map = <<>>
    /\ unbuilt_targets = <<>>
    /\ result = <<>>
    /\ exc = NoException
    /\ hist = NoHistory
    /\ call = NoCall
    /\ prev = NoCall
    /\ calls = 0
    /\ rootCall = Idle
    /\ scanCall = Idle
    /\ buildCall = Idle
    /\ \E cached \in [Invocations -> BOOLEAN] :
         race = [done |-> FALSE,
                 inv |-> [p \in Invocations |-> Invocation(RaceTargets[p], cached[p])],
                 size |-> IF cacheFile.state = "object" THEN JsonLen(cacheFile.map) ELSE 0,
                 writers |-> <<>>,
                 written |-> EmptyMap,
                 answers |-> IF cacheFile.state = "object"
                             THEN { <<k, cacheFile.map[k]>> : k \in DOMAIN cacheFile.map }
                             ELSE {}]

Finished(p, returned, raised) ==
    [race.inv[p] EXCEPT !.pc = "Done", !.ret = returned, !.exc = raised]

RaceDoneIf(inv) == \A p \in Invocations : inv[p].pc = "Done"

\* lines 73-85
RaceLoad(p) ==
    /\ race.inv[p].pc = "Load"
    /\ LET me == race.inv[p]
           key == serialized_targets(me.targets)
           loaded == LoadCache(cacheFile)
           after ==
               IF LookupAttempted(loaded, me.use_cache) /\ key \in DOMAIN loaded.cache
               THEN Finished(p, loaded.cache[key], "None")
               ELSE [me EXCEPT !.pc = "Query", !.loaded = loaded, !.cache = loaded.cache]
           inv == [race.inv EXCEPT ![p] = after]
       IN race' = [race EXCEPT !.inv = inv, !.done = RaceDoneIf(inv)]
    /\ UNCHANGED <<orchestratorVars, cacheFile, normalizerVars, rootCall, scanCall, buildCall>>

\* lines 86-109 and 117-129
RaceQuery(p) ==
    /\ race.inv[p].pc = "Query"
    /\ \E outcome \in RaceOutcomes[p] :
         LET me == race.inv[p]
             key == serialized_targets(me.targets)
             lines == ParseOutput(outcome.stdout)
             after ==
                 IF outcome.kind = "timeout"
                 THEN [Finished(p, <<>>, "BuildToolHung") EXCEPT !.outcome = "timeout"]
                 ELSE IF outcome.kind = "error"
                 THEN [Finished(p, <<>>, "BuildToolQueryFailed") EXCEPT !.outcome = "error"]
                 ELSE [me EXCEPT !.pc = "Open", !.ret = lines, !.outcome = "ok",
                                 !.cache = MapPut(me.cache, key, lines)]
             inv == [race.inv EXCEPT ![p] = after]
         IN race' = [race EXCEPT
                        !.inv = inv, !.done = RaceDoneIf(inv),
                        !.answers = IF outcome.kind = "ok" THEN @ \cup {<<key, lines>>} ELSE @]
    /\ UNCHANGED <<orchestratorVars, cacheFile, normalizerVars, rootCall, scanCall, buildCall>>

\* line 111: mode "w+" creates the file or cuts it to length 0; an IOError is swallowed
RaceOpen(p) ==
    /\ race.inv[p].pc = "Open"
    /\ LET me == race.inv[p]
           after == IF cacheFile.writable THEN [me EXCEPT !.pc = "Dump"]
                    ELSE Finished(p, me.ret, "None")
           inv == [race.inv EXCEPT ![p] = after]
       IN /\ race' = [race EXCEPT !.inv = inv, !.done = RaceDoneIf(inv),
                                  !.size = IF cacheFile.writable THEN 0 ELSE @]
          /\ cacheFile' = IF cacheFile.writable
                          THEN [cacheFile EXCEPT !.state = "malformed", !.map = EmptyMap]
                          ELSE cacheFile
    /\ UNCHANGED <<orchestratorVars, normalizerVars, rootCall, scanCall, buildCall>>

\* lines 112-116: the text goes to offset 0 of the file as it is now; what
\* another writer put beyond its end stays there
RaceDump(p) ==
    /\ race.inv[p].pc = "Dump"
    /\ LET me == race.inv[p]
           inv == [race.inv EXCEPT ![p] = Finished(p, me.ret, "None")]
           whole == JsonLen(me.cache) >= race.size
       IN /\ race' = [race EXCEPT !.inv = inv, !.done = RaceDoneIf(inv),
                                  !.size = IF whole THEN JsonLen(me.cache) ELSE @,
                                  !.writers = Append(@, p),
                                  !.written = me.cache]
          /\ cacheFile' = IF whole
                          THEN StoreCache(cacheFile, me.cache)
                          ELSE [cacheFile EXCEPT !.state = "malformed", !.map = EmptyMap]
    /\ UNCHANGED <<orchestratorVars, normalizerVars, rootCall, scanCall, buildCall>>

NextRace ==
    \E p \in Invocations : RaceLoad(p) \/ RaceQuery(p) \/ RaceOpen(p) \/ RaceDump(p)

SpecRace == InitRace /\ [][NextRace]_vars

\* no invocation failed but by a failure of its own tool run
RaceNoFailure ==
    \A p \in Invocations :
        race.inv[p].exc # "None" =>
            /\ race.inv[p].outcome \in {"timeout", "error"}
            /\ race.inv[p].exc \in {"BuildToolHung", "BuildToolQueryFailed"}

\* the file holds exactly the map the last writer wrote
RaceLastWriterWins ==
    race.writers # <<>> => (cacheFile.state = "object" /\ cacheFile.map = race.written)

\* every value in the file is an answer of the tool to the targets of its key
RaceValuesGenuine ==
    cacheFile.state = "object" =>
        \A k \in DOMAIN cacheFile.map : <<k, cacheFile.map[k]>> \in race.answers

\* C16 as stated: when two _normalize invocations have run interleaved against
\* the same cache path, neither failed because of the race, the file holds
\* exactly the map written by the last writer, and every value in it is a line
\* sequence the tool returned for the targets joined into its key.
C16_ConcurrentCache ==
    race.done => (RaceNoFailure /\ RaceLastWriterWins /\ RaceValuesGenuine)

\* what does hold of the race: no failure, and whatever map is readable is genuine
C16_RaceHarmless ==
    /\ RaceNoFailure
    /\ RaceValuesGenuine
    /\ (race.done /\ race.writers # <<>> /\ cacheFile.state = "object")
           => cacheFile.map = race.written


\* the last standalone call loaded a well-formed cache, ran the tool with
\* success and could write the file
PersistCase ==
    /\ call.done
    /\ call.before.state = "object"
    /\ call.before.readable
    /\ call.before.writable
    /\ call.invoked
    /\ call.outcome = "ok"
    /\ call.exc = "None"

\* C17: when _normalize misses on a well-formed cache, queries the tool with
\* success and persists, the new cache file is the loaded map with only the
\* entry of this call's comma-joined key added or replaced; every other key
\* keeps its previous value.
C17_CacheWriteFrame ==
    PersistCase =>
        LET key == Join(call.targets, <<",">>)
        IN /\ cacheFile.state = "object"
           /\ DOMAIN cacheFile.map = DOMAIN call.before.map \cup {key}
           /\ cacheFile.map[key] = call.ret
           /\ \A k \in DOMAIN call.before.map :
                k # key => cacheFile.map[k] = call.before.map[k]

C17_Witness ==
    /\ PersistCase
    /\ call.targets = <<WildcardX, TargetZW>>
    /\ KeyX \in DOMAIN call.before.map
    /\ Cardinality(DOMAIN cacheFile.map) = 2
    /\ cacheFile.map[KeyX] = CachedLines


\* every tool run and the operator prompt return, so a call that can take its
\* next step takes it
SpecFair == Spec /\ WF_vars(Next)

\* C18: every top-level call of generate_source_directories eventually reaches
\* a terminal state, Succeeded or Failed, for every combination of flags,
\* filesystem state and tool output, given that every tool run and the
\* operator prompt return.
C18_Termination == <>(pc \in {"Succeeded", "Failed"})

C18_Witness ==
    /\ pc = "Succeeded"
    /\ Len(hist.passes) = 2
    /\ hist.prompts = 1
    /\ hist.answer = "yes"
    /\ Len(hist.builds) = 1
    /\ result # <<>>


\* the retry pass is running or has run, and its scan reported targets not found
RetryQueryCase ==
    /\ Len(hist.passes) = 2
    /\ pc \notin {"Scanning", "Normalizing"}
    /\ targets_not_found # <<>>

\* C19: the retry pass does not inherit the caller's use_cache flag: it runs
\* with use_cache=false, and if its scan reports any target not found the
\* tool is queried again, even when the top-level call had use_cache=true and
\* the key is in the cache.
C19_RetryIgnoresCache ==
    /\ Len(hist.passes) = 2 => (~use_cache /\ ~hist.passes[2].use_cache)
    /\ RetryQueryCase => hist.passQueries = 1

C19_Witness ==
    /\ RetryQueryCase
    /\ Top.use_cache
    /\ cacheFile.state = "object"
    /\ serialized_targets(targets_not_found) \in DOMAIN cacheFile.map
    /\ hist.queries = 1
    /\ hist.passQueries = 1
    /\ pc = "Succeeded"


\* this step is a _normalize call whose query timed out or exited non-zero
QueryFails ==
    /\ pc = "Normalizing"
    /\ hist'.outcome \in {"timeout", "error"}

\* C20: when the query times out or exits non-zero, _normalize raises a
\* BuckException and leaves the cache file exactly as it was, and
\* generate_source_directories propagates that failure: the call is Failed at
\* once, with no build, re-scan, prompt or retry, and nothing follows a failure.
C20_QueryFailurePropagates ==
    [][ /\ pc # "Failed"
        /\ QueryFails =>
             /\ pc' = "Failed"
             /\ exc'.kind = IF hist'.outcome = "timeout"
                            THEN "BuildToolHung" ELSE "BuildToolQueryFailed"
             /\ cacheFile' = cacheFile
             /\ disk' = disk
             /\ hist'.builds = hist.builds
             /\ hist'.prompts = hist.prompts
             /\ hist'.passes = hist.passes
             /\ result' = result ]_vars

C20_Witness ==
    /\ pc = "Failed"
    /\ hist.outcome = "timeout"
    /\ exc.kind = "BuildToolHung"
    /\ Len(hist.passes) = 2
    /\ hist.prompts = 1
    /\ BuildCount = 0
    /\ cacheFile.state = "object"

====
